---- MODULE Spec2Model ----
(***************************************************************************)
(* Model of hwlib-graphics-drawables.hpp: the Bresenham line::draw and the *)
(* midpoint circle::draw, writing pixels to a window.  The window is       *)
(* modelled by the ordered log of the write() calls it receives.           *)
(***************************************************************************)
EXTENDS Integers, Sequences, FiniteSets, TLC

\* ---- bounds of the model ----
MaxCoord  == 3     \* line end points lie in -MaxCoord..MaxCoord squared
MaxRadius == 5     \* circle radii 0..MaxRadius
MaxCentre == 1     \* circle centres lie in -MaxCentre..MaxCentre squared

Coord   == (-MaxCoord)..MaxCoord
Centre  == (-MaxCentre)..MaxCentre
Radii   == 0..MaxRadius

transparent == "transparent"
FgColors == {"black", "white"}
BgColors == {transparent, "black", "white"}

VARIABLES pc, shape, ln, caller, circ, chords, log, lineIters, circIters

vars == <<pc, shape, ln, caller, circ, chords, log, lineIters, circIters>>

\* ---- xy ----
xy(a, b) == [x |-> a, y |-> b]
xyAdd(p, q) == [x |-> p.x + q.x, y |-> p.y + q.y]
xySub(p, q) == [x |-> p.x - q.x, y |-> p.y - q.y]

\* one call of window::write
Write(p, c, t) == [p |-> p, c |-> c, tag |-> t]

\* ---- line ----
abs(x) == IF x >= 0 THEN x ELSE -x

NoLine == [none |-> TRUE]
NoCirc == [none |-> TRUE]
NoShape == [kind |-> "none"]

\* initial value of the error term E
LineE0Biased(TwoDy, Dx) == TwoDy
LineE0(TwoDy, Dx) == TwoDy - Dx

\* the steep test of line::draw
LineSteep(Dx, Dy) == abs(Dy) >= abs(Dx)

\* the direction of the walk along the primary axis
LineXstepFlipped(Dx) == IF Dx > 0 THEN -1 ELSE 1
LineXstep(Dx) == IF Dx < 0 THEN -1 ELSE 1

\* locals of line::draw when the for loop is entered
LineInit(s, e, fg, t) ==
   LET sx0 == s.x
       sy0 == s.y
       sx1 == e.x
       sy1 == e.y
       steep == LineSteep(sx1 - sx0, sy1 - sy0)
       x0 == IF steep THEN sy0 ELSE sx0
       y0 == IF steep THEN sx0 ELSE sy0
       x1 == IF steep THEN sy1 ELSE sx1
       y1 == IF steep THEN sx1 ELSE sy1
       Dx0 == x1 - x0
       Dy0 == y1 - y0
       xstep == LineXstep(Dx0)
       Dx == IF Dx0 < 0 THEN -Dx0 ELSE Dx0
       ystep == IF Dy0 < 0 THEN -1 ELSE 1
       Dy == IF Dy0 < 0 THEN -Dy0 ELSE Dy0
       TwoDy == 2 * Dy
   IN [start |-> s, end |-> e, fg |-> fg, tag |-> t,
       steep |-> steep, x1 |-> x1,
       xstep |-> xstep, ystep |-> ystep, Dx |-> Dx, Dy |-> Dy,
       TwoDy |-> TwoDy, TwoDyTwoDx |-> TwoDy - 2 * Dx,
       E |-> LineE0(TwoDy, Dx), x |-> x0, y |-> y0]

\* the loop test of line::draw
LineMoreInclusive(l) == l.x # l.x1 + l.xstep
LineMore(l) == l.x # l.x1

\* the pixel one iteration writes
LinePixel(l) == IF l.steep THEN xy(l.y, l.x) ELSE xy(l.x, l.y)

\* the update of E, y and x in one iteration
LineAdvance(l) ==
   IF l.E > 0
      THEN [l EXCEPT !.E = l.E + l.TwoDyTwoDx, !.y = l.y + l.ystep,
                     !.x = l.x + l.xstep]
      ELSE [l EXCEPT !.E = l.E + l.TwoDy, !.x = l.x + l.xstep]

\* all the writes of line::draw from the locals l on
RECURSIVE LineRun(_)
LineRun(l) ==
   IF LineMore(l)
      THEN <<Write(LinePixel(l), l.fg, l.tag)>> \o LineRun(LineAdvance(l))
      ELSE <<>>

\* line( s, e, fg ).draw( w ) as a whole
LineWrites(s, e, fg) == LineRun(LineInit(s, e, fg, "line"))

\* ---- circle ----
\* locals of circle::draw before the while loop
CircleInit(radius) ==
   [fx |-> 1 - radius, ddFx |-> 1, ddFy |-> (-2) * radius,
    x |-> 0, y |-> radius]

\* "calculate next outer circle point"
CircleNextNoDescent(c) ==
   [c EXCEPT !.x = c.x + 1, !.ddFx = c.ddFx + 2, !.fx = c.fx + c.ddFx + 2]
CircleNext(c) ==
   LET d == IF c.fx >= 0
               THEN [c EXCEPT !.y = c.y - 1, !.ddFy = c.ddFy + 2,
                              !.fx = c.fx + c.ddFy + 2]
               ELSE c
   IN [d EXCEPT !.x = d.x + 1, !.ddFx = d.ddFx + 2,
                !.fx = d.fx + d.ddFx + 2]

\* the four axis-extreme points, and the two that are written again
CircleExtremes(start, radius, fg) ==
   << Write(xyAdd(start, xy(0, radius)), fg, "extreme"),
      Write(xyAdd(start, xy(0, -radius)), fg, "extreme"),
      Write(xyAdd(start, xy(radius, 0)), fg, "extreme"),
      Write(xyAdd(start, xy(-radius, 0)), fg, "extreme") >>

CircleExtremesAgain(start, radius, fg) ==
   << Write(xyAdd(start, xy(0, radius)), fg, "extreme"),
      Write(xyAdd(start, xy(0, -radius)), fg, "extreme") >>

\* the diameter line drawn when the circle is filled
CircleDiameter(start, radius, fg, bg) ==
   [from |-> xySub(start, xy(radius, 0)), to |-> xyAdd(start, xy(radius, 0)),
    fg |-> fg, tag |-> "diameter"]

\* the eight symmetric points of one iteration
CirclePointsSeven(start, x, y, fg) ==
   << Write(xyAdd(start, xy(x, y)), fg, "outline"),
      Write(xyAdd(start, xy(x, y)), fg, "outline"),
      Write(xyAdd(start, xy(x, -y)), fg, "outline"),
      Write(xyAdd(start, xy(-x, -y)), fg, "outline"),
      Write(xyAdd(start, xy(y, x)), fg, "outline"),
      Write(xyAdd(start, xy(-y, x)), fg, "outline"),
      Write(xyAdd(start, xy(y, -x)), fg, "outline"),
      Write(xyAdd(start, xy(-y, -x)), fg, "outline") >>
CirclePoints(start, x, y, fg) ==
   << Write(xyAdd(start, xy(x, y)), fg, "outline"),
      Write(xyAdd(start, xy(-x, y)), fg, "outline"),
      Write(xyAdd(start, xy(x, -y)), fg, "outline"),
      Write(xyAdd(start, xy(-x, -y)), fg, "outline"),
      Write(xyAdd(start, xy(y, x)), fg, "outline"),
      Write(xyAdd(start, xy(-y, x)), fg, "outline"),
      Write(xyAdd(start, xy(y, -x)), fg, "outline"),
      Write(xyAdd(start, xy(-y, -x)), fg, "outline") >>

\* the four chord lines of one iteration
CircleChordsTwo(start, x, y, bg) ==
   << [from |-> xyAdd(start, xy(-x, y)), to |-> xyAdd(start, xy(x, y)),
       fg |-> bg, tag |-> "chord"],
      [from |-> xyAdd(start, xy(-x, -y)), to |-> xyAdd(start, xy(x, -y)),
       fg |-> bg, tag |-> "chord"] >>
CircleChords(start, x, y, bg) ==
   << [from |-> xyAdd(start, xy(-x, y)), to |-> xyAdd(start, xy(x, y)),
       fg |-> bg, tag |-> "chord"],
      [from |-> xyAdd(start, xy(-x, -y)), to |-> xyAdd(start, xy(x, -y)),
       fg |-> bg, tag |-> "chord"],
      [from |-> xyAdd(start, xy(-y, x)), to |-> xyAdd(start, xy(y, x)),
       fg |-> bg, tag |-> "chord"],
      [from |-> xyAdd(start, xy(-y, -x)), to |-> xyAdd(start, xy(y, -x)),
       fg |-> bg, tag |-> "chord"] >>

\* ---- the state machine ----
Init ==
   /\ pc = "idle"
   /\ shape = NoShape
   /\ ln = NoLine
   /\ caller = "none"
   /\ circ = NoCirc
   /\ chords = <<>>
   /\ log = <<>>
   /\ lineIters = 0
   /\ circIters = 0

\* line( s, e, fg ).draw( w ): up to the for loop
LineDraw ==
   /\ pc = "idle"
   /\ \E sx \in Coord, sy \in Coord, ex \in Coord, ey \in Coord, fg \in FgColors :
         /\ shape' = [kind |-> "line", start |-> xy(sx, sy), end |-> xy(ex, ey),
                      radius |-> 0, fg |-> fg, bg |-> transparent]
         /\ ln' = LineInit(xy(sx, sy), xy(ex, ey), fg, "line")
   /\ pc' = "line"
   /\ caller' = "top"
   /\ lineIters' = 0
   /\ UNCHANGED <<circ, chords, log, circIters>>

\* one iteration of the for loop of line::draw
LineLoop ==
   /\ pc = "line"
   /\ LineMore(ln)
   /\ log' = Append(log, Write(LinePixel(ln), ln.fg, ln.tag))
   /\ ln' = LineAdvance(ln)
   /\ lineIters' = lineIters + 1
   /\ UNCHANGED <<pc, shape, caller, circ, chords, circIters>>

\* the for loop of line::draw ends and draw returns
LineReturn ==
   /\ pc = "line"
   /\ ~LineMore(ln)
   /\ pc' = IF caller = "circle" THEN "circle" ELSE "done"
   /\ UNCHANGED <<shape, ln, caller, circ, chords, log, lineIters, circIters>>

\* circle( c, r, fg, bg ).draw( w ): up to the diameter line
CircleDraw ==
   /\ pc = "idle"
   /\ \E cx \in Centre, cy \in Centre, r \in Radii, fg \in FgColors, bg \in BgColors :
         /\ shape' = [kind |-> "circle", start |-> xy(cx, cy), end |-> xy(cx, cy),
                      radius |-> r, fg |-> fg, bg |-> bg]
         /\ IF r < 1
               THEN /\ pc' = "done"
                    /\ UNCHANGED <<circ, chords, log>>
               ELSE /\ pc' = "circle"
                    /\ circ' = CircleInit(r)
                    /\ log' = IF bg # transparent
                                 THEN CircleExtremes(xy(cx, cy), r, fg)
                                      \o CircleExtremesAgain(xy(cx, cy), r, fg)
                                 ELSE CircleExtremes(xy(cx, cy), r, fg)
                    /\ chords' = IF bg # transparent
                                    THEN <<CircleDiameter(xy(cx, cy), r, fg, bg)>>
                                    ELSE <<>>
   /\ circIters' = 0
   /\ UNCHANGED <<ln, caller, lineIters>>

\* one iteration of the while loop of circle::draw, up to its chord lines
CircleLoop ==
   /\ pc = "circle"
   /\ chords = <<>>
   /\ circ.x < circ.y
   /\ LET c == CircleNext(circ)
      IN /\ circ' = c
         /\ log' = log \o CirclePoints(shape.start, c.x, c.y, shape.fg)
         /\ chords' = IF shape.bg # transparent
                         THEN CircleChords(shape.start, c.x, c.y, shape.bg)
                         ELSE <<>>
   /\ circIters' = circIters + 1
   /\ UNCHANGED <<pc, shape, ln, caller, lineIters>>

\* circle::draw constructs its next line and calls its draw
CircleChord ==
   /\ pc = "circle"
   /\ chords # <<>>
   /\ ln' = LineInit(Head(chords).from, Head(chords).to,
                     Head(chords).fg, Head(chords).tag)
   /\ chords' = Tail(chords)
   /\ pc' = "line"
   /\ caller' = "circle"
   /\ lineIters' = 0
   /\ UNCHANGED <<shape, circ, log, circIters>>

\* the while loop of circle::draw ends and draw returns
CircleReturn ==
   /\ pc = "circle"
   /\ chords = <<>>
   /\ ~(circ.x < circ.y)
   /\ pc' = "done"
   /\ UNCHANGED <<shape, ln, caller, circ, chords, log, lineIters, circIters>>

\* the drawable is discarded; the next one draws on a blank window
Reset ==
   /\ pc = "done"
   /\ pc' = "idle"
   /\ shape' = NoShape
   /\ ln' = NoLine
   /\ caller' = "none"
   /\ circ' = NoCirc
   /\ chords' = <<>>
   /\ log' = <<>>
   /\ lineIters' = 0
   /\ circIters' = 0

Next ==
   \/ LineDraw
   \/ LineLoop
   \/ LineReturn
   \/ CircleDraw
   \/ CircleLoop
   \/ CircleChord
   \/ CircleReturn
   \/ Reset

Spec == Init /\ [][Next]_vars

\* ---- what the window has received ----
Pixels(s) == {s[i].p : i \in 1..Len(s)}

\* the colour of the last write to p, "blank" when p was never written
Final(p) ==
   LET I == {i \in 1..Len(log) : log[i].p = p}
   IN IF I = {} THEN "blank"
      ELSE log[CHOOSE i \in I : \A j \in I : j <= i].c

\* squared distance of p from the centre of the circle being drawn
Dist2(p) ==
   (p.x - shape.start.x) * (p.x - shape.start.x)
   + (p.y - shape.start.y) * (p.y - shape.start.y)

max(a, b) == IF a >= b THEN a ELSE b
min(a, b) == IF a <= b THEN a ELSE b
sign(d) == IF d < 0 THEN -1 ELSE 1

LineDone == pc = "done" /\ shape.kind = "line"
CircleDone == pc = "done" /\ shape.kind = "circle"
Filled == shape.kind = "circle" /\ shape.radius >= 1 /\ shape.bg # transparent

\* C1: a completed line from A to B has written the same set of pixels as
\* the line from B to A writes.
C1_LineSymmetric ==
   LineDone =>
      Pixels(log) = Pixels(LineWrites(shape.end, shape.start, shape.fg))

\* C2: a completed line from (0,0) to (n,0), n >= 1, has written exactly
\* (0,0), (1,0), ..., (n,0), in that order, each once.
C2_HorizontalLineInclusive ==
   (LineDone /\ shape.start = xy(0, 0) /\ shape.end.y = 0 /\ shape.end.x >= 1)
      => [i \in 1..Len(log) |-> log[i].p]
            = [i \in 1..(shape.end.x + 1) |-> xy(i - 1, 0)]

\* C3: after a filled circle of radius r >= 1 is drawn on a blank window,
\* every pixel at squared distance < r^2 from the centre has been written
\* and holds the foreground or the fill colour.
C3_FillHasNoHoles ==
   (CircleDone /\ Filled) =>
      \A dx \in (-shape.radius)..shape.radius, dy \in (-shape.radius)..shape.radius :
         dx * dx + dy * dy < shape.radius * shape.radius
            => Final(xyAdd(shape.start, xy(dx, dy))) \in {shape.fg, shape.bg}

C3_Witness ==
   /\ CircleDone /\ Filled
   /\ shape.radius = 3 /\ shape.fg = "black" /\ shape.bg = "white"
   /\ Final(xyAdd(shape.start, xy(1, 1))) = "white"
   /\ Final(xyAdd(shape.start, xy(-2, -1))) = "white"

\* C4: after a filled circle with bg # fg is drawn, every pixel that was
\* plotted as an outline point holds the foreground colour.
C4_OutlinePrecedence ==
   (CircleDone /\ Filled /\ shape.bg # shape.fg) =>
      \A i \in 1..Len(log) :
         log[i].tag \in {"extreme", "outline"} => Final(log[i].p) = shape.fg

\* C5 (as claimed): a filled circle never writes a pixel at squared distance
\* > r^2 from the centre.
C5_NoWriteOutsideRadius ==
   Filled => \A i \in 1..Len(log) : Dist2(log[i].p) <= shape.radius * shape.radius

\* C5 (amended): a filled circle never writes a pixel more than half a pixel
\* outside the circle: every write has squared distance <= r^2 + r.
C5_NoWriteBeyondHalfPixel ==
   Filled =>
      \A i \in 1..Len(log) :
         Dist2(log[i].p) <= shape.radius * shape.radius + shape.radius

C5_Witness ==
   /\ CircleDone /\ Filled
   /\ \E i \in 1..Len(log) : Dist2(log[i].p) > shape.radius * shape.radius

\* C6: after an outline-only circle of radius r >= 1 is drawn, the written
\* pixels, relative to the centre, are closed under (+-x, +-y) and (+-y, +-x).
C6_OctantSymmetry ==
   (CircleDone /\ shape.radius >= 1 /\ shape.bg = transparent) =>
      LET Rel == {xySub(p, shape.start) : p \in Pixels(log)}
      IN \A q \in Rel :
            {xy(q.x, q.y), xy(-q.x, q.y), xy(q.x, -q.y), xy(-q.x, -q.y),
             xy(q.y, q.x), xy(-q.y, q.x), xy(q.y, -q.x), xy(-q.y, -q.x)}
               \subseteq Rel

C6_Witness ==
   /\ CircleDone /\ shape.radius = 3 /\ shape.bg = transparent
   /\ xyAdd(shape.start, xy(1, 3)) \in Pixels(log)
   /\ xyAdd(shape.start, xy(-3, -1)) \in Pixels(log)

\* C7: a line from A to A never writes a pixel.
C7_DegenerateLineSilent ==
   (shape.kind = "line" /\ shape.start = shape.end) => log = <<>>

C7_Witness ==
   LineDone /\ shape.start = shape.end /\ shape.start = xy(1, -2)

\* C8: the loop of line::draw has made at most m = max(|Dx|,|Dy|) iterations,
\* is exactly m - iterations steps away from its exit, and so leaves after
\* exactly m; the loop of circle::draw has made at most r iterations, its x
\* counting them and its y never above r, the chord lines included.
C8_DrawsBounded ==
   /\ pc = "line" =>
         LET m == max(abs(ln.end.x - ln.start.x), abs(ln.end.y - ln.start.y))
         IN /\ lineIters <= m
            /\ abs(ln.x1 - ln.x) = m - lineIters
            /\ (~LineMore(ln)) <=> (lineIters = m)
   /\ LineDone =>
         lineIters = max(abs(shape.end.x - shape.start.x),
                         abs(shape.end.y - shape.start.y))
   /\ (shape.kind = "circle" /\ shape.radius >= 1) =>
         /\ circIters <= shape.radius
         /\ circ.x = circIters
         /\ circ.y <= shape.radius
         /\ circ.x <= circ.y + 1

C8_Witness ==
   /\ CircleDone /\ Filled
   /\ circIters >= 2
   /\ lineIters >= 2

\* C9: in a filled circle every pixel of the diameter chord is written in
\* the fill colour.
C9_DiameterInFillColour ==
   Filled => \A i \in 1..Len(log) : log[i].tag = "diameter" => log[i].c = shape.bg

\* C10: the k-th write of a line (k = 0..m-1) is at primary-axis offset k
\* from start and at secondary-axis offset j with |2*m*j - 2*n*k| <= m,
\* where m = max(|Dx|,|Dy|), n = min(|Dx|,|Dy|) and the primary axis is y
\* when |Dy| >= |Dx|; a completed line has made exactly m writes.
C10_LineWithinHalfPixel ==
   shape.kind = "line" =>
      LET dx == shape.end.x - shape.start.x
          dy == shape.end.y - shape.start.y
          m == max(abs(dx), abs(dy))
          n == min(abs(dx), abs(dy))
          yPrimary == abs(dy) >= abs(dx)
          ox(p) == (p.x - shape.start.x) * sign(dx)
          oy(p) == (p.y - shape.start.y) * sign(dy)
      IN /\ Len(log) <= m
         /\ pc = "done" => Len(log) = m
         /\ \A i \in 1..Len(log) :
               LET k == IF yPrimary THEN oy(log[i].p) ELSE ox(log[i].p)
                   j == IF yPrimary THEN ox(log[i].p) ELSE oy(log[i].p)
               IN /\ k = i - 1
                  /\ abs(2 * m * j - 2 * n * k) <= m

C10_Witness ==
   /\ LineDone
   /\ shape.start = xy(2, 1) /\ shape.end = xy(-1, -1)
   /\ Len(log) = 3
   /\ log[3].p = xy(0, 0)

====
